---- MODULE Spec2Model ----
(***************************************************************************)
(* Model of start-server.py: a static demo HTTP server.                    *)
(*                                                                         *)
(* Two instances of the script run against one TCP port.  Each instance    *)
(* walks through main(): chdir, the TCPServer constructor (the bind), the  *)
(* banner, serve_forever(), the exit of the `with` block and the two       *)
(* except clauses.  While serving, each request goes through the base      *)
(* handler's header emission and then MyHTTPRequestHandler.end_headers.    *)
(***************************************************************************)
EXTENDS Integers, Sequences, FiniteSets, TLC

\* ---------------------------------------------------------------- bounds
MaxRequests == 2      \* requests one instance serves before the model stops feeding it
MaxBaseHeaders == 2   \* header lines the base behaviour emits after the status line

\* ------------------------------------------------------------- constants
PORT == 8000
EADDRINUSE_LINUX == 98
EADDRINUSE_BSD == 48

Proc == {1, 2}

\* errno values an OSError of a run may carry: the two the script names and
\* two it does not (EACCES, EBADF)
Errnos == {EADDRINUSE_LINUX, EADDRINUSE_BSD} \cup {13, 9}

NoException == [type |-> "None", errno |-> 0]
KeyboardInterrupt == [type |-> "KeyboardInterrupt", errno |-> 0]
OSError(n) == [type |-> "OSError", errno |-> n]

\* ----------------------------------------------------- printed messages
\* one entry per message: <<kind, port named in it, numbered suggestions>>
StartupBanner == <<"banner", PORT, 0>>
ShutdownMessage == <<"shutdown", 0, 0>>
PortInUseDiagnostic == <<"port_in_use", PORT, 2>>

\* ------------------------------------------------------ response headers
StatusLines == {"HTTP/1.0 200 OK", "HTTP/1.0 404 File not found",
                "HTTP/1.0 301 Moved Permanently"}
ContentTypeHeaders == {<<"Content-type", "text/html">>}
BaseHeaders == ContentTypeHeaders \cup {<<"Content-Length", "0">>, <<"Connection", "close">>}

SeqsUpTo(S, n) == UNION {[1..k -> S] : k \in 0..n}

send_header(buf, keyword, value) == Append(buf, keyword \o ": " \o value)

RECURSIVE send_headers(_, _)
send_headers(buf, hs) ==
    IF hs = <<>> THEN buf
    ELSE send_headers(send_header(buf, hs[1][1], hs[1][2]), Tail(hs))

\* what the base file-serving behaviour has put in the header buffer when it
\* calls end_headers: a status line and then its own header lines
BaseHeaderBlocks ==
    {send_headers(<<s>>, hs) : s \in StatusLines, hs \in SeqsUpTo(BaseHeaders, MaxBaseHeaders)}

HeaderTerminator == ""

\* BaseHTTPRequestHandler.end_headers: terminate the block; the result is flushed
super_end_headers(buf) == Append(buf, HeaderTerminator)

\* the hook with the Cache-Control line forgotten
end_headers_NoCacheControl(buf) ==
    LET b1 == send_header(buf, "Access-Control-Allow-Origin", "*")
        b2 == send_header(b1, "Access-Control-Allow-Methods", "GET")
    IN  super_end_headers(b2)

\* the hook setting its headers in front of the buffer, with a Content-type of its own
end_headers_Prepend(buf) ==
    LET b1 == send_header(<<buf[1]>>, "Content-type", "text/html")
        b2 == send_header(b1, "Access-Control-Allow-Origin", "*")
        b3 == send_header(b2, "Access-Control-Allow-Methods", "GET")
        b4 == send_header(b3, "Cache-Control", "no-store, no-cache, must-revalidate")
    IN  super_end_headers(b4 \o Tail(buf))

end_headers(buf) ==
    LET b1 == send_header(buf, "Access-Control-Allow-Origin", "*")
        b2 == send_header(b1, "Access-Control-Allow-Methods", "GET")
        b3 == send_header(b2, "Cache-Control", "no-store, no-cache, must-revalidate")
    IN  super_end_headers(b3)

\* ------------------------------------------------------------------ state
VARIABLES
    pc,              \* position of each instance in main()
    sock,            \* listening socket of each instance: "none", "bound", "closed"
    external,        \* TRUE while a foreign process holds the port
    out,             \* messages each instance has printed
    status,          \* "running", "exit0", "exit1", "raised" (uncaught exception)
    exc,             \* exception in flight, or the one that ended the run uncaught
    raisedAt,        \* where in main() the exception in flight was raised
    uncaught,        \* exception that left main() and reached the runtime
    binds,           \* bind attempts of each instance
    nreq,            \* requests each instance has finished
    headers_buffer,  \* header lines buffered for the response in progress
    wfile            \* header block written to the connection in progress

vars == <<pc, sock, external, out, status, exc, raisedAt, uncaught, binds, nreq, headers_buffer, wfile>>

Init ==
    /\ pc = [i \in Proc |-> "chdir"]
    /\ sock = [i \in Proc |-> "none"]
    /\ external \in BOOLEAN
    /\ out = [i \in Proc |-> <<>>]
    /\ status = [i \in Proc |-> "running"]
    /\ exc = [i \in Proc |-> NoException]
    /\ raisedAt = [i \in Proc |-> "none"]
    /\ uncaught = [i \in Proc |-> NoException]
    /\ binds = [i \in Proc |-> 0]
    /\ nreq = [i \in Proc |-> 0]
    /\ headers_buffer = [i \in Proc |-> <<>>]
    /\ wfile = [i \in Proc |-> <<>>]

\* the port is held by a listening socket other than instance i's
PortHeldByOther(i) == external \/ \E j \in Proc \ {i} : sock[j] = "bound"

\* an exception e leaves the position `where` of instance i
Raise(i, e, where) ==
    /\ exc' = [exc EXCEPT ![i] = e]
    /\ raisedAt' = [raisedAt EXCEPT ![i] = where]

\* --------------------------------------------------------------- actions
\* the banner printed before the listener exists
Chdir_PrintsBanner(i) ==
    /\ pc[i] = "chdir"
    /\ out' = [out EXCEPT ![i] = Append(@, StartupBanner)]
    /\ pc' = [pc EXCEPT ![i] = "bind"]
    /\ UNCHANGED <<sock, external, status, exc, raisedAt, uncaught, binds, nreq, headers_buffer, wfile>>

\* line 30: os.chdir succeeds
Chdir(i) ==
    /\ pc[i] = "chdir"
    /\ pc' = [pc EXCEPT ![i] = "bind"]
    /\ UNCHANGED <<sock, external, out, status, exc, raisedAt, uncaught, binds, nreq, headers_buffer, wfile>>

\* line 30 is outside the try block: whatever it raises is uncaught
ChdirRaises(i) ==
    /\ pc[i] = "chdir"
    /\ \E e \in {KeyboardInterrupt} \cup {OSError(n) : n \in Errnos} :
          /\ Raise(i, e, "chdir")
          /\ uncaught' = [uncaught EXCEPT ![i] = e]
    /\ pc' = [pc EXCEPT ![i] = "done"]
    /\ status' = [status EXCEPT ![i] = "raised"]
    /\ UNCHANGED <<sock, external, out, binds, nreq, headers_buffer, wfile>>

\* the listener created with address reuse, so that a held port does not refuse it
BindOk_ReuseAddress(i) ==
    /\ pc[i] = "bind"
    /\ binds' = [binds EXCEPT ![i] = @ + 1]
    /\ sock' = [sock EXCEPT ![i] = "bound"]
    /\ pc' = [pc EXCEPT ![i] = "banner"]
    /\ UNCHANGED <<external, out, status, exc, raisedAt, nreq, headers_buffer, wfile, uncaught>>

\* line 35: the constructor binds and listens
BindOk(i) ==
    /\ pc[i] = "bind"
    /\ ~PortHeldByOther(i)
    /\ binds' = [binds EXCEPT ![i] = @ + 1]
    /\ sock' = [sock EXCEPT ![i] = "bound"]
    /\ pc' = [pc EXCEPT ![i] = "banner"]
    /\ UNCHANGED <<external, out, status, exc, raisedAt, nreq, headers_buffer, wfile, uncaught>>

\* line 35: the bind is refused because the port is held; the constructor
\* closes its socket and the OSError carries the platform's address-in-use number
BindAddressInUse(i) ==
    /\ pc[i] = "bind"
    /\ PortHeldByOther(i)
    /\ binds' = [binds EXCEPT ![i] = @ + 1]
    /\ \E n \in {EADDRINUSE_LINUX, EADDRINUSE_BSD} : Raise(i, OSError(n), "bind")
    /\ pc' = [pc EXCEPT ![i] = "except"]
    /\ UNCHANGED <<sock, external, out, status, nreq, headers_buffer, wfile, uncaught>>

\* line 35: listener setup fails for another operating-system reason
BindOtherError(i) ==
    /\ pc[i] = "bind"
    /\ ~PortHeldByOther(i)
    /\ binds' = [binds EXCEPT ![i] = @ + 1]
    /\ \E n \in Errnos \ {EADDRINUSE_LINUX, EADDRINUSE_BSD} : Raise(i, OSError(n), "bind")
    /\ pc' = [pc EXCEPT ![i] = "except"]
    /\ UNCHANGED <<sock, external, out, status, nreq, headers_buffer, wfile, uncaught>>

\* line 35: Ctrl+C while the constructor runs, before the listener is bound
BindInterrupted(i) ==
    /\ pc[i] = "bind"
    /\ Raise(i, KeyboardInterrupt, "bind")
    /\ pc' = [pc EXCEPT ![i] = "except"]
    /\ UNCHANGED <<sock, external, out, status, binds, nreq, headers_buffer, wfile, uncaught>>

\* lines 36-48: the startup banner
Banner(i) ==
    /\ pc[i] = "banner"
    /\ out' = [out EXCEPT ![i] = Append(@, StartupBanner)]
    /\ pc' = [pc EXCEPT ![i] = "serve"]
    /\ UNCHANGED <<sock, external, status, exc, raisedAt, uncaught, binds, nreq, headers_buffer, wfile>>

\* lines 36-48: Ctrl+C or a failing write to stdout before the banner is complete
BannerRaises(i) ==
    /\ pc[i] = "banner"
    /\ \E e \in {KeyboardInterrupt} \cup {OSError(n) : n \in Errnos} : Raise(i, e, "banner")
    /\ pc' = [pc EXCEPT ![i] = "unwind"]
    /\ UNCHANGED <<sock, external, out, status, binds, nreq, headers_buffer, wfile, uncaught>>

\* line 50, base behaviour: a request is read and the base handler buffers
\* the status line and its headers
SendHead(i) ==
    /\ pc[i] = "serve"
    /\ headers_buffer[i] = <<>>
    /\ wfile[i] = <<>>
    /\ nreq[i] < MaxRequests
    /\ \E b \in BaseHeaderBlocks : headers_buffer' = [headers_buffer EXCEPT ![i] = b]
    /\ UNCHANGED <<pc, sock, external, out, status, exc, raisedAt, uncaught, binds, nreq, wfile>>

\* lines 21-26: the hook, called by the base handler once its headers are buffered
EndHeaders(i) ==
    /\ pc[i] = "serve"
    /\ headers_buffer[i] # <<>>
    /\ wfile' = [wfile EXCEPT ![i] = end_headers(headers_buffer[i])]
    /\ headers_buffer' = [headers_buffer EXCEPT ![i] = <<>>]
    /\ UNCHANGED <<pc, sock, external, out, status, exc, raisedAt, uncaught, binds, nreq>>

\* line 50: the body is sent and the connection is closed
FinishRequest(i) ==
    /\ pc[i] = "serve"
    /\ wfile[i] # <<>>
    /\ wfile' = [wfile EXCEPT ![i] = <<>>]
    /\ nreq' = [nreq EXCEPT ![i] = @ + 1]
    /\ UNCHANGED <<pc, sock, external, out, status, exc, raisedAt, uncaught, binds, headers_buffer>>

\* line 50: Ctrl+C or an OSError leaves serve_forever; the request in
\* progress, if any, is abandoned
ServeRaises(i) ==
    /\ pc[i] = "serve"
    /\ \E e \in {KeyboardInterrupt} \cup {OSError(n) : n \in Errnos} : Raise(i, e, "serve")
    /\ pc' = [pc EXCEPT ![i] = "unwind"]
    /\ headers_buffer' = [headers_buffer EXCEPT ![i] = <<>>]
    /\ wfile' = [wfile EXCEPT ![i] = <<>>]
    /\ UNCHANGED <<sock, external, out, status, binds, nreq, uncaught>>

\* the server used without the `with` block: nothing closes the listener
WithExit_NoClose(i) ==
    /\ pc[i] = "unwind"
    /\ pc' = [pc EXCEPT ![i] = "except"]
    /\ UNCHANGED <<sock, external, out, status, exc, raisedAt, uncaught, binds, nreq, headers_buffer, wfile>>

\* line 35: the exception leaves the `with` block, whose exit closes the listener
WithExit(i) ==
    /\ pc[i] = "unwind"
    /\ sock' = [sock EXCEPT ![i] = "closed"]
    /\ pc' = [pc EXCEPT ![i] = "except"]
    /\ UNCHANGED <<external, out, status, exc, raisedAt, uncaught, binds, nreq, headers_buffer, wfile>>

\* the interrupt handler leaving with a failure status
ExceptKeyboardInterrupt_Exit1(i) ==
    /\ pc[i] = "except"
    /\ exc[i].type = "KeyboardInterrupt"
    /\ out' = [out EXCEPT ![i] = Append(@, ShutdownMessage)]
    /\ status' = [status EXCEPT ![i] = "exit1"]
    /\ pc' = [pc EXCEPT ![i] = "done"]
    /\ UNCHANGED <<sock, external, exc, raisedAt, uncaught, binds, nreq, headers_buffer, wfile>>

\* lines 51-53
ExceptKeyboardInterrupt(i) ==
    /\ pc[i] = "except"
    /\ exc[i].type = "KeyboardInterrupt"
    /\ out' = [out EXCEPT ![i] = Append(@, ShutdownMessage)]
    /\ status' = [status EXCEPT ![i] = "exit0"]
    /\ pc' = [pc EXCEPT ![i] = "done"]
    /\ UNCHANGED <<sock, external, exc, raisedAt, uncaught, binds, nreq, headers_buffer, wfile>>

\* the OSError handler going back to the bind on a port conflict
ExceptOSError_Retry(i) ==
    /\ pc[i] = "except"
    /\ exc[i].type = "OSError"
    /\ IF exc[i].errno = 98 \/ exc[i].errno = 48
       THEN /\ out' = [out EXCEPT ![i] = Append(@, PortInUseDiagnostic)]
            /\ pc' = [pc EXCEPT ![i] = "bind"]
            /\ UNCHANGED <<status, uncaught>>
       ELSE /\ status' = [status EXCEPT ![i] = "raised"]
            /\ uncaught' = [uncaught EXCEPT ![i] = exc[i]]
            /\ pc' = [pc EXCEPT ![i] = "done"]
            /\ out' = out
    /\ UNCHANGED <<sock, external, exc, raisedAt, binds, nreq, headers_buffer, wfile>>

\* the OSError handler treating every OSError as a port conflict
ExceptOSError_SwallowAll(i) ==
    /\ pc[i] = "except"
    /\ exc[i].type = "OSError"
    /\ out' = [out EXCEPT ![i] = Append(@, PortInUseDiagnostic)]
    /\ status' = [status EXCEPT ![i] = "exit1"]
    /\ pc' = [pc EXCEPT ![i] = "done"]
    /\ UNCHANGED <<sock, external, exc, raisedAt, uncaught, binds, nreq, headers_buffer, wfile>>

\* the OSError handler leaving with status 0 after its diagnostic
ExceptOSError_Exit0(i) ==
    /\ pc[i] = "except"
    /\ exc[i].type = "OSError"
    /\ IF exc[i].errno = 98 \/ exc[i].errno = 48
       THEN /\ out' = [out EXCEPT ![i] = Append(@, PortInUseDiagnostic)]
            /\ status' = [status EXCEPT ![i] = "exit0"]
            /\ uncaught' = uncaught
       ELSE /\ status' = [status EXCEPT ![i] = "raised"]
            /\ uncaught' = [uncaught EXCEPT ![i] = exc[i]]
            /\ out' = out
    /\ pc' = [pc EXCEPT ![i] = "done"]
    /\ UNCHANGED <<sock, external, exc, raisedAt, binds, nreq, headers_buffer, wfile>>

\* the OSError handler printing the diagnostic only for a failed bind
ExceptOSError_ByState(i) ==
    /\ pc[i] = "except"
    /\ exc[i].type = "OSError"
    /\ IF (exc[i].errno = 98 \/ exc[i].errno = 48) /\ raisedAt[i] = "bind"
       THEN /\ out' = [out EXCEPT ![i] = Append(@, PortInUseDiagnostic)]
            /\ status' = [status EXCEPT ![i] = "exit1"]
            /\ uncaught' = uncaught
       ELSE /\ status' = [status EXCEPT ![i] = "raised"]
            /\ uncaught' = [uncaught EXCEPT ![i] = exc[i]]
            /\ out' = out
    /\ pc' = [pc EXCEPT ![i] = "done"]
    /\ UNCHANGED <<sock, external, exc, raisedAt, binds, nreq, headers_buffer, wfile>>

\* lines 54-62
ExceptOSError(i) ==
    /\ pc[i] = "except"
    /\ exc[i].type = "OSError"
    /\ IF exc[i].errno = 98 \/ exc[i].errno = 48
       THEN /\ out' = [out EXCEPT ![i] = Append(@, PortInUseDiagnostic)]
            /\ status' = [status EXCEPT ![i] = "exit1"]
            /\ uncaught' = uncaught
       ELSE /\ status' = [status EXCEPT ![i] = "raised"]
            /\ uncaught' = [uncaught EXCEPT ![i] = exc[i]]
            /\ out' = out
    /\ pc' = [pc EXCEPT ![i] = "done"]
    /\ UNCHANGED <<sock, external, exc, raisedAt, binds, nreq, headers_buffer, wfile>>

\* a foreign process takes the free port, or gives it back
ExternalBind ==
    /\ ~external
    /\ \A j \in Proc : sock[j] # "bound"
    /\ external' = TRUE
    /\ UNCHANGED <<pc, sock, out, status, exc, raisedAt, uncaught, binds, nreq, headers_buffer, wfile>>

ExternalRelease ==
    /\ external
    /\ external' = FALSE
    /\ UNCHANGED <<pc, sock, out, status, exc, raisedAt, uncaught, binds, nreq, headers_buffer, wfile>>

main(i) ==
    \/ Chdir(i)
    \/ ChdirRaises(i)
    \/ BindOk(i)
    \/ BindAddressInUse(i)
    \/ BindOtherError(i)
    \/ BindInterrupted(i)
    \/ Banner(i)
    \/ BannerRaises(i)
    \/ SendHead(i)
    \/ EndHeaders(i)
    \/ FinishRequest(i)
    \/ ServeRaises(i)
    \/ WithExit(i)
    \/ ExceptKeyboardInterrupt(i)
    \/ ExceptOSError(i)

Next ==
    \/ \E i \in Proc : main(i)
    \/ ExternalBind
    \/ ExternalRelease

Spec == Init /\ [][Next]_vars

\* the interpreter keeps running a started instance: an exception in flight
\* reaches its handler and the handler completes
LiveSpec ==
    /\ Spec
    /\ \A i \in Proc : WF_vars(WithExit(i))
    /\ \A i \in Proc : WF_vars(ExceptKeyboardInterrupt(i))
    /\ \A i \in Proc : WF_vars(ExceptOSError(i))

TypeOK ==
    /\ pc \in [Proc -> {"chdir", "bind", "banner", "serve", "unwind", "except", "done"}]
    /\ sock \in [Proc -> {"none", "bound", "closed"}]
    /\ status \in [Proc -> {"running", "exit0", "exit1", "raised"}]
    /\ \A i \in Proc : nreq[i] \in 0..MaxRequests
\* ------------------------------------------------------------ lifecycle
\* the lifecycle state of the specification (STARTING, SERVING, STOPPED) read
\* off the position in main(): an instance whose exception is still on its way
\* to a handler is in the state the exception was raised in
State(i) ==
    IF pc[i] = "done"
    THEN (IF status[i] = "exit0" THEN "STOPPED_SUCCESS" ELSE "STOPPED_FAILURE")
    ELSE IF pc[i] \in {"unwind", "except"}
    THEN (IF raisedAt[i] \in {"chdir", "bind"} THEN "STARTING" ELSE "SERVING")
    ELSE IF pc[i] \in {"chdir", "bind"} THEN "STARTING" ELSE "SERVING"

Range(s) == {s[k] : k \in 1..Len(s)}
Last(s) == s[Len(s)]
LastIs(s, m) == s # <<>> /\ Last(s) = m

AddressInUse(e) == e.type = "OSError" /\ e.errno \in {EADDRINUSE_LINUX, EADDRINUSE_BSD}
OtherOSError(e) == e.type = "OSError" /\ e.errno \notin {EADDRINUSE_LINUX, EADDRINUSE_BSD}
InTryBlock(where) == where \in {"bind", "banner", "serve"}

\* --------------------------------------------------------------- claims

FixedHeaderLines ==
    <<"Access-Control-Allow-Origin: *",
      "Access-Control-Allow-Methods: GET",
      "Cache-Control: no-store, no-cache, must-revalidate">>

\* C1: every header block written to a connection, whatever its status line,
\* is terminated and contains each of the three fixed header lines, byte for
\* byte, before the terminator.
C1_FixedHeadersInEveryResponse ==
    \A i \in Proc :
        wfile[i] # <<>> =>
            /\ Last(wfile[i]) = HeaderTerminator
            /\ \A h \in 1..3 : \E k \in 1..(Len(wfile[i]) - 1) : wfile[i][k] = FixedHeaderLines[h]

C1_Witness ==
    \E i \in Proc : wfile[i] # <<>> /\ wfile[i][1] = "HTTP/1.0 404 File not found"

ContentTypeLines == {send_header(<<>>, h[1], h[2])[1] : h \in ContentTypeHeaders}
ContentTypeCount(s) == Cardinality({k \in 1..Len(s) : s[k] \in ContentTypeLines})

\* C2: the step that writes a header block writes the buffered base lines
\* unchanged, then the three fixed lines once each in their fixed order, then
\* the terminator; the number of Content-type lines is that of the base lines.
C2_FixedHeadersAppendedAfterBase ==
    [][\A i \in Proc :
        (headers_buffer[i] # <<>> /\ wfile'[i] # <<>>) =>
            /\ wfile'[i] = headers_buffer[i] \o FixedHeaderLines \o <<HeaderTerminator>>
            /\ ContentTypeCount(wfile'[i]) = ContentTypeCount(headers_buffer[i])]_vars

C2_Witness ==
    \E i \in Proc :
        /\ wfile[i] # <<>>
        /\ ContentTypeCount(wfile[i]) = 1
        /\ Len(wfile[i]) >= 6

BindFailedInUse(i) == raisedAt[i] = "bind" /\ AddressInUse(exc[i])
BindFailedOther(i) == raisedAt[i] = "bind" /\ OtherOSError(exc[i])

C4_OtherBindErrorPropagates ==
    \A i \in Proc :
        BindFailedOther(i) =>
            /\ PortInUseDiagnostic \notin Range(out[i])
            /\ status[i] # "exit0"
            /\ sock[i] = "none"
            /\ pc[i] \in {"except", "done"}
            /\ pc[i] = "done" => (status[i] = "raised" /\ uncaught[i] = exc[i] /\ out[i] = <<>>)

C4_Witness ==
    \E i \in Proc : BindFailedOther(i) /\ pc[i] = "done" /\ uncaught[i] = OSError(13)

InterruptedInServe(i) == exc[i] = KeyboardInterrupt /\ raisedAt[i] = "serve"

\* C5: an interrupt raised in the serve loop leads to a stopped instance that
\* printed the shutdown message last and exited with status 0; from the
\* interrupt on the instance is never serving and never has a failure status.
C5_InterruptEndsInSuccess ==
    /\ \A i \in Proc :
          InterruptedInServe(i) ~>
              (pc[i] = "done" /\ status[i] = "exit0" /\ LastIs(out[i], ShutdownMessage))
    /\ [](\A i \in Proc :
          InterruptedInServe(i) =>
              /\ pc[i] \in {"unwind", "except", "done"}
              /\ status[i] \in {"running", "exit0"})

C5_Witness ==
    \E i \in Proc :
        /\ InterruptedInServe(i)
        /\ pc[i] = "done"
        /\ status[i] = "exit0"
        /\ out[i] = <<StartupBanner, ShutdownMessage>>

Stopped == {"STOPPED_SUCCESS", "STOPPED_FAILURE"}

\* C6 as stated: SERVING is entered only from STARTING with the listener
\* bound, STOPPED(success) only from SERVING on an interrupt, STOPPED(failure)
\* only from STARTING or SERVING with an error, and nothing leaves STOPPED.
C6_StatedLifecycle ==
    [][\A i \in Proc :
        /\ State(i) \in Stopped => State(i)' = State(i)
        /\ (State(i)' = "SERVING" /\ State(i) # "SERVING") =>
              (State(i) = "STARTING" /\ sock'[i] = "bound")
        /\ (State(i)' = "STOPPED_SUCCESS" /\ State(i) # "STOPPED_SUCCESS") =>
              (State(i) = "SERVING" /\ exc'[i] = KeyboardInterrupt)
        /\ (State(i)' = "STOPPED_FAILURE" /\ State(i) # "STOPPED_FAILURE") =>
              (State(i) \in {"STARTING", "SERVING"} /\ exc'[i] # NoException)]_vars

\* C6 amended: STOPPED(success) is entered on an interrupt raised inside the
\* try block, from SERVING or from STARTING; STOPPED(failure) is entered from
\* STARTING or SERVING on an OSError, or from STARTING on an interrupt raised
\* before the try block; the rest as stated.
C6_Lifecycle ==
    [][\A i \in Proc :
        /\ State(i) \in Stopped => State(i)' = State(i)
        /\ (State(i)' = "SERVING" /\ State(i) # "SERVING") =>
              (State(i) = "STARTING" /\ sock'[i] = "bound")
        /\ (State(i)' = "STOPPED_SUCCESS" /\ State(i) # "STOPPED_SUCCESS") =>
              /\ State(i) \in {"STARTING", "SERVING"}
              /\ exc'[i] = KeyboardInterrupt
              /\ InTryBlock(raisedAt'[i])
        /\ (State(i)' = "STOPPED_FAILURE" /\ State(i) # "STOPPED_FAILURE") =>
              /\ State(i) \in {"STARTING", "SERVING"}
              /\ \/ exc'[i].type = "OSError"
                 \/ (exc'[i] = KeyboardInterrupt /\ raisedAt'[i] = "chdir" /\ State(i) = "STARTING")]_vars

C6_Witness ==
    \E i \in Proc :
        /\ State(i) = "STOPPED_SUCCESS"
        /\ raisedAt[i] = "bind"
        /\ sock[i] = "none"

Holders == Cardinality({i \in Proc : sock[i] = "bound"}) + (IF external THEN 1 ELSE 0)

C8_BannerAfterBindBeforeRequests ==
    /\ StartupBanner # ShutdownMessage
    /\ StartupBanner # PortInUseDiagnostic
    /\ ShutdownMessage # PortInUseDiagnostic
    /\ \A i \in Proc :
        /\ StartupBanner \in Range(out[i]) => sock[i] \in {"bound", "closed"}
        /\ (nreq[i] > 0 \/ headers_buffer[i] # <<>> \/ wfile[i] # <<>>) =>
              out[i][1] = StartupBanner
        /\ raisedAt[i] = "bind" => StartupBanner \notin Range(out[i])
        /\ ~(ShutdownMessage \in Range(out[i]) /\ PortInUseDiagnostic \in Range(out[i]))

C8_Witness ==
    \E i \in Proc : \E j \in Proc \ {i} :
        /\ nreq[i] > 0
        /\ out[i] = <<StartupBanner, ShutdownMessage>>
        /\ out[j] = <<PortInUseDiagnostic>>

\* C9: an instance in an except clause or stopped does not hold its listener,
\* so a handler's message is printed with the listener closed; once an
\* instance has stopped and no one else holds the port, another instance at
\* its bind can take it.
C9_ListenerClosedBeforeHandlers ==
    /\ [](\A i \in Proc : pc[i] \in {"except", "done"} => sock[i] # "bound")
    /\ [][\A i \in Proc :
          (out'[i] # out[i] /\ Last(out'[i]) \in {ShutdownMessage, PortInUseDiagnostic}) =>
              sock[i] # "bound"]_vars
    /\ [](\A i \in Proc : \A j \in Proc \ {i} :
          (pc[i] = "done" /\ pc[j] = "bind" /\ ~external) => ENABLED BindOk(j))

C9_Witness ==
    \E i \in Proc : \E j \in Proc \ {i} :
        /\ pc[i] = "done"
        /\ raisedAt[i] = "serve"
        /\ sock[i] = "closed"
        /\ sock[j] = "bound"

\* C10: however far the run had come inside the try block, an OSError
\* numbered 98 or 48 ends it with the diagnostic and exit status 1, any other
\* OSError ends it uncaught, and an interrupt ends it with the shutdown
\* message and exit status 0.
C10_HandlersClassifyByExceptionAlone ==
    \A i \in Proc :
        (pc[i] = "done" /\ InTryBlock(raisedAt[i])) =>
            /\ (exc[i].type = "OSError" /\ exc[i].errno \in {98, 48}) =>
                  (LastIs(out[i], PortInUseDiagnostic) /\ status[i] = "exit1")
            /\ (exc[i].type = "OSError" /\ exc[i].errno \notin {98, 48}) =>
                  /\ status[i] = "raised"
                  /\ uncaught[i] = exc[i]
                  /\ PortInUseDiagnostic \notin Range(out[i])
            /\ exc[i] = KeyboardInterrupt =>
                  (LastIs(out[i], ShutdownMessage) /\ status[i] = "exit0")

C10_Witness ==
    \E i \in Proc : \E j \in Proc \ {i} :
        /\ pc[i] = "done" /\ raisedAt[i] = "serve" /\ exc[i] = OSError(98) /\ status[i] = "exit1"
        /\ pc[j] = "done" /\ raisedAt[j] = "banner" /\ exc[j] = KeyboardInterrupt /\ status[j] = "exit0"
====
